---- MODULE Spec2Model ----
(***************************************************************************)
(* Document ingestion pipeline of agent02: the chunker                     *)
(* (lib/documentProcessing.ts), the embedding endpoint                     *)
(* (app/api/generate-embedding/route.ts) and the streaming upload handler  *)
(* PUT of the documents/upload route.                                      *)
(*                                                                         *)
(* A string is a sequence of one-character strings.  Positions inside the  *)
(* chunker are kept 0-based as in the source; Slice and At convert.        *)
(***************************************************************************)
EXTENDS Integers, Sequences, FiniteSets, TLC

Max(a, b) == IF a >= b THEN a ELSE b

Min(a, b) == IF a <= b THEN a ELSE b

\* Math.ceil(a / b) for a >= 0, b >= 1
Ceil(a, b) == (a + b - 1) \div b

(***************************************************************************)
(* String primitives                                                       *)
(***************************************************************************)

\* characters matched by the regular-expression class \s and removed by trim()
Whitespace == {" ", "\n", "\t"}

\* String.prototype.slice(a, b): negative indices count from the end
Slice(s, a, b) ==
  LET n  == Len(s)
      a1 == IF a < 0 THEN Max(n + a, 0) ELSE Min(a, n)
      b1 == IF b < 0 THEN Max(n + b, 0) ELSE Min(b, n)
  IN  IF a1 >= b1 THEN << >> ELSE SubSeq(s, a1 + 1, b1)

\* text[i] of the source (0-based); "" stands for undefined
At(s, i) == IF i >= 0 /\ i < Len(s) THEN s[i + 1] ELSE ""

RECURSIVE TrimStart(_)
TrimStart(s) ==
  IF s # << >> /\ Head(s) \in Whitespace THEN TrimStart(Tail(s)) ELSE s

RECURSIVE TrimEnd(_)
TrimEnd(s) ==
  IF s # << >> /\ s[Len(s)] \in Whitespace
  THEN TrimEnd(SubSeq(s, 1, Len(s) - 1))
  ELSE s

\* String.prototype.trim()
\* a trim that removes nothing
TrimNothing(s) == s

Trim(s) == TrimEnd(TrimStart(s))

\* p.replace(/\s+/g, " "): every maximal run of whitespace becomes one space
RECURSIVE CollapseWhitespace(_)
CollapseWhitespace(s) ==
  IF s = << >> THEN << >>
  ELSE IF Head(s) \in Whitespace
       THEN << " " >> \o CollapseWhitespace(TrimStart(s))
       ELSE << Head(s) >> \o CollapseWhitespace(Tail(s))

\* last 0-based index k in lo..hi with s[k] = "\n", or -1
RECURSIVE LastNewline(_, _, _)
LastNewline(s, lo, hi) ==
  IF hi < lo THEN -1
  ELSE IF At(s, hi) = "\n" THEN hi ELSE LastNewline(s, lo, hi - 1)

\* 0-based index just after the maximal whitespace run that starts at i
RECURSIVE WhitespaceRunEnd(_, _)
WhitespaceRunEnd(s, i) ==
  IF i < Len(s) /\ At(s, i) \in Whitespace
  THEN WhitespaceRunEnd(s, i + 1)
  ELSE i

\* 0-based index where the match of /\n\s*\n/ that starts at i ends (its last
\* newline), or -1 when no match starts at i; \s* is greedy, so the match
\* runs to the last newline of the whitespace run that follows i
BreakEnd(s, i) ==
  IF At(s, i) = "\n"
  THEN LastNewline(s, i + 1, WhitespaceRunEnd(s, i + 1) - 1)
  ELSE -1

\* a newline precedes i inside the whitespace run that contains i
RECURSIVE NewlineBefore(_, _)
NewlineBefore(s, i) ==
  /\ At(s, i - 1) \in Whitespace
  /\ (At(s, i - 1) = "\n" \/ NewlineBefore(s, i - 1))

\* starts of the matches split() finds scanning left to right: a match
\* consumes its whitespace run up to the last newline, so a run holds at most
\* one match, which starts at the first newline of the run
BreakStarts(s) ==
  {i \in 0..(Len(s) - 1) : BreakEnd(s, i) >= 0 /\ ~NewlineBefore(s, i)}

\* the k-th smallest element of a finite set of integers, k >= 1
Nth(S, k) == CHOOSE x \in S : Cardinality({y \in S : y < x}) = k - 1

\* text.split(/\n\s*\n/): the pieces before, between and after the matches
SplitParagraphs(s) ==
  LET starts == BreakStarts(s)
      m      == Cardinality(starts)
      from(k) == IF k = 1 THEN 0 ELSE BreakEnd(s, Nth(starts, k - 1)) + 1
      to(k)   == IF k = m + 1 THEN Len(s) ELSE Nth(starts, k)
  IN  [k \in 1..(m + 1) |-> Slice(s, from(k), to(k))]

\* the paragraphs of chunkText: split on blank lines, normalise, trim
Paragraphs(text) ==
  LET pieces == SplitParagraphs(text)
  IN  [k \in 1..Len(pieces) |-> Trim(CollapseWhitespace(pieces[k]))]

(***************************************************************************)
(* splitLongText                                                           *)
(***************************************************************************)

\* chunk sizes below 2000 for which the double product chunkSize * 0.7 falls
\* just below the exact value 7 * chunkSize / 10
RoundsDown ==
  {90, 170, 180} \cup {330 + 10 * k : k \in 0..3}
  \cup {650 + 10 * k : k \in 0..8} \cup {1290 + 10 * k : k \in 0..17}

\* Math.floor(chunkSize * 0.7) in IEEE double arithmetic, chunkSize < 2000
SearchBack(chunkSize) ==
  IF chunkSize \in RoundsDown
  THEN (7 * chunkSize) \div 10 - 1
  ELSE (7 * chunkSize) \div 10

\* first loop: largest i in (searchStart, chunkEnd] with a sentence end at
\* i - 1 followed by a space at i; -1 when there is none
RECURSIVE SentenceBoundary(_, _, _)
SentenceBoundary(text, i, searchStart) ==
  IF i <= searchStart THEN -1
  ELSE IF At(text, i - 1) \in {".", "!", "?"} /\ At(text, i) = " "
       THEN i
       ELSE SentenceBoundary(text, i - 1, searchStart)

\* second loop: largest i in (searchStart, chunkEnd] with a comma or a space
\* at i - 1; -1 when there is none
RECURSIVE CommaOrSpace(_, _, _)
CommaOrSpace(text, i, searchStart) ==
  IF i <= searchStart THEN -1
  ELSE IF At(text, i - 1) \in {",", " "}
       THEN i
       ELSE CommaOrSpace(text, i - 1, searchStart)

\* the breaking point chosen for the sub-chunk that starts at position
ChunkEnd(text, chunkSize, position) ==
  LET naive       == Min(position + chunkSize, Len(text))
      searchStart == Max(position + SearchBack(chunkSize), position)
      sentence    == SentenceBoundary(text, naive, searchStart)
      other       == CommaOrSpace(text, naive, searchStart)
  IN  IF naive < Len(text)
      THEN IF sentence >= 0 THEN sentence
           ELSE IF other >= 0 THEN other ELSE naive
      ELSE naive

\* "Adjust to word boundary": advance to the next space
RECURSIVE WordBoundary(_, _)
WordBoundary(text, position) ==
  IF position > 0 /\ position < Len(text) /\ At(text, position) # " "
  THEN WordBoundary(text, position + 1)
  ELSE position

\* one iteration of the while loop: the new << chunks, position >>
SplitIteration(text, chunkSize, overlap, chunks, position) ==
  LET chunkEnd == ChunkEnd(text, chunkSize, position)
      chunk    == Trim(Slice(text, position, chunkEnd))
      chunks1  == IF Len(chunk) > 0 THEN Append(chunks, chunk) ELSE chunks
      next     == IF chunkEnd < Len(text) /\ Len(chunks1) > 0
                  THEN WordBoundary(text,
                         Max(chunkEnd - overlap, chunkEnd - overlap))
                  ELSE chunkEnd
  IN  << chunks1, next >>

\* the while loop, unrolled at most fuel times
RECURSIVE SplitLoop(_, _, _, _, _, _)
SplitLoop(text, chunkSize, overlap, chunks, position, fuel) ==
  IF position >= Len(text) \/ fuel = 0 THEN chunks
  ELSE LET it == SplitIteration(text, chunkSize, overlap, chunks, position)
       IN  SplitLoop(text, chunkSize, overlap, it[1], it[2], fuel - 1)

\* iterations granted to the splitter: enough whenever position advances
SplitFuel(text) == Len(text) + 1

splitLongText(text, chunkSize, overlap) ==
  SplitLoop(text, chunkSize, overlap, << >>, 0, SplitFuel(text))

\* the while loop seen through its scan position: TRUE when the loop exits
\* within fuel iterations, each of which moved position forward
RECURSIVE LoopAdvances(_, _, _, _, _, _)
LoopAdvances(text, chunkSize, overlap, chunks, position, fuel) ==
  IF position >= Len(text) THEN TRUE
  ELSE IF fuel = 0 THEN FALSE
  ELSE LET it == SplitIteration(text, chunkSize, overlap, chunks, position)
       IN  /\ it[2] > position
           /\ LoopAdvances(text, chunkSize, overlap, it[1], it[2], fuel - 1)

\* the while loop exits within fuel iterations
RECURSIVE LoopExits(_, _, _, _, _, _)
LoopExits(text, chunkSize, overlap, chunks, position, fuel) ==
  IF position >= Len(text) THEN TRUE
  ELSE IF fuel = 0 THEN FALSE
  ELSE LET it == SplitIteration(text, chunkSize, overlap, chunks, position)
       IN  LoopExits(text, chunkSize, overlap, it[1], it[2], fuel - 1)

\* iterations after which the loop has revisited a position: position stays
\* in -overlap .. Len(text), and once chunks is not empty the next position
\* is a function of the current one, so a loop that runs longer never exits
RevisitFuel(text, overlap) == 2 * (Len(text) + overlap + 2)

\* splitLongText(text, chunkSize, overlap) returns
SplitTerminates(text, chunkSize, overlap) ==
  LoopExits(text, chunkSize, overlap, << >>, 0, RevisitFuel(text, overlap))

\* every iteration of splitLongText(text, chunkSize, overlap) moves its scan
\* position forward
SplitAdvances(text, chunkSize, overlap) ==
  LoopAdvances(text, chunkSize, overlap, << >>, 0, SplitFuel(text))

(***************************************************************************)
(* chunkText                                                               *)
(***************************************************************************)

\* the tail kept as overlap for the next chunk
TailOverlap(chunk, overlap) ==
  Trim(Slice(chunk, Max(0, Len(chunk) - overlap), Len(chunk)))

\* body of the for loop over the paragraphs; st is the record of the locals
ParagraphStep(st, paragraph, chunkSize, overlap) ==
  LET cur    == st.currentChunk
      closed == Len(cur) > 0
      chunks1 == IF closed THEN Append(st.chunks, Trim(cur)) ELSE st.chunks
      prev1  == IF closed THEN TailOverlap(cur, overlap)
                ELSE st.previousOverlap
      sub    == splitLongText(paragraph, chunkSize, overlap)
      first  == IF prev1 # << >>
                THEN Trim(prev1 \o << " " >> \o sub[1])
                ELSE sub[1]
  IN  IF paragraph = << >> THEN st
      ELSE IF Len(cur) + Len(paragraph) + 1 > chunkSize
           THEN IF Len(paragraph) > chunkSize
                THEN [chunks          |-> chunks1 \o << first >> \o Tail(sub),
                      currentChunk    |-> << >>,
                      previousOverlap |-> TailOverlap(sub[Len(sub)], overlap)]
                ELSE [chunks          |-> chunks1,
                      currentChunk    |-> IF prev1 # << >>
                                          THEN prev1 \o << " " >> \o paragraph
                                          ELSE paragraph,
                      previousOverlap |-> prev1]
           ELSE [chunks          |-> st.chunks,
                 currentChunk    |-> IF cur # << >>
                                     THEN cur \o << " " >> \o paragraph
                                     ELSE paragraph,
                 previousOverlap |-> st.previousOverlap]

\* the for loop: the paragraphs are folded in order, the left half to its
\* final locals (mid) before the right half starts from them
RECURSIVE ParagraphLoop(_, _, _, _)
ParagraphLoop(st, paragraphs, chunkSize, overlap) ==
  LET n == Len(paragraphs)
      h == n \div 2
  IN  IF n = 0 THEN st
      ELSE IF n = 1 THEN ParagraphStep(st, paragraphs[1], chunkSize, overlap)
      ELSE CHOOSE result \in
             {ParagraphLoop(mid, SubSeq(paragraphs, h + 1, n), chunkSize, overlap) :
                mid \in {ParagraphLoop(st, SubSeq(paragraphs, 1, h),
                                       chunkSize, overlap)}} : TRUE

\* a filter that also drops the chunks of exactly minChars characters
FilterSmallStrict(chunks, minChars) ==
  SelectSeq(chunks, LAMBDA chunk : Len(chunk) > minChars)

\* a filter that drops the empty chunks only
FilterEmptyOnly(chunks, minChars) ==
  SelectSeq(chunks, LAMBDA chunk : Len(chunk) > 0)

\* chunks.filter(chunk => chunk.length >= minChars)
FilterSmall(chunks, minChars) ==
  SelectSeq(chunks, LAMBDA chunk : Len(chunk) >= minChars)

\* chunkText: minChars is the literal 50 of the final filter
chunkText(text, chunkSize, overlap, minChars) ==
  LET st  == ParagraphLoop([chunks |-> << >>, currentChunk |-> << >>,
                            previousOverlap |-> << >>],
                           Paragraphs(text), chunkSize, overlap)
      all == IF Len(Trim(st.currentChunk)) > 0
             THEN Append(st.chunks, Trim(st.currentChunk))
             ELSE st.chunks
  IN  FilterSmall(all, minChars)

(***************************************************************************)
(* Identifiers and metadata                                                *)
(***************************************************************************)

Digit == << "0", "1", "2", "3", "4", "5", "6", "7", "8", "9" >>

\* decimal rendering of a number inside a template string
RECURSIVE Decimal(_)
Decimal(n) ==
  IF n < 10 THEN << Digit[n + 1] >>
  ELSE Decimal(n \div 10) \o << Digit[(n % 10) + 1] >>

\* an id whose chunk index and timestamp are not separated
generateChunkIdUnseparated(filename, chunkIndex, timestamp) ==
  filename \o << "-", "c", "h", "u", "n", "k", "-" >> \o Decimal(chunkIndex)
           \o Decimal(timestamp)

\* `${filename}-chunk-${chunkIndex}-${timestamp}`
generateChunkId(filename, chunkIndex, timestamp) ==
  filename \o << "-", "c", "h", "u", "n", "k", "-" >> \o Decimal(chunkIndex)
           \o << "-" >> \o Decimal(timestamp)

\* uploadedAt is the clock reading at the time of the call
extractMetadata(filename, fileType, fileSize, chunkIndex, totalChunks, clock) ==
  [filename    |-> filename,
   fileType    |-> fileType,
   fileSize    |-> fileSize,
   chunkIndex  |-> chunkIndex,
   totalChunks |-> totalChunks,
   uploadedAt  |-> clock]

\* fileName.endsWith(".txt")
EndsWithTxt(name) ==
  Len(name) >= 4 /\ Slice(name, Len(name) - 4, Len(name)) = << ".", "t", "x", "t" >>

(***************************************************************************)
(* Configuration (constants.ts)                                            *)
(***************************************************************************)

CHUNK_SIZE == 1700

CHUNK_OVERLAP == 250

MAX_BATCH_SIZE == 50

CHROMA_MAX_BATCH == 5000

\* the literal of the final filter of chunkText
MIN_CHUNK_CHARS == 50

\* the configuration the program runs with
ProgramConfig ==
  [chunkSize      |-> CHUNK_SIZE,
   overlap        |-> CHUNK_OVERLAP,
   minChars       |-> MIN_CHUNK_CHARS,
   maxBatch       |-> MAX_BATCH_SIZE,
   chromaMaxBatch |-> CHROMA_MAX_BATCH]

(***************************************************************************)
(* Embedding model of every call site (constants.ts)                       *)
(***************************************************************************)

DEFAULT_EMBEDDING_MODEL == "nomic-embed-text"

\* embedMany of the endpoint, body { texts } (route.ts line 34)
BatchModel == DEFAULT_EMBEDDING_MODEL

\* embed of the endpoint, body { text } (route.ts line 56)
SingleModel == DEFAULT_EMBEDDING_MODEL

\* the tool embedding its query with a model name of its own
ToolModelHardCoded == "nomic-test-embed"

\* embed of the getAdditionalContext tool (line 43)
ToolModel == DEFAULT_EMBEDDING_MODEL

(***************************************************************************)
(* Bounds of the model and the inputs drawn from them                      *)
(***************************************************************************)

\* largest number of paragraphs of a generated document
MaxChunks == 4

\* largest scaled-down embedding ceiling
MaxEmbedCeiling == 2

\* largest scaled-down store ceiling
MaxStoreCeiling == 2

\* number of distinct clock readings
MaxClock == 2

\* chunk size of the scaled-down configurations
ScaledChunkSize == 2

\* chunk count of the end-to-end scenario with the program's ceilings
ScenarioChunks == 120

Timestamps == 1..MaxClock

Letters == << "a", "b", "c", "d", "e", "f", "g", "h", "i", "j", "k", "l" >>

\* paragraph k (0-based) of a generated document: ScaledChunkSize characters,
\* the first two of which identify k
Para(k) ==
  << Letters[(k \div 12) + 1], Letters[(k % 12) + 1] >>
    \o [i \in 1..(ScaledChunkSize - 2) |-> "x"]

\* a document of n paragraphs separated by blank lines
Doc(n) ==
  LET w == ScaledChunkSize + 2
  IN  [p \in 1..(IF n = 0 THEN 0 ELSE n * w - 2) |->
         IF (p - 1) % w < ScaledChunkSize
         THEN Para((p - 1) \div w)[((p - 1) % w) + 1]
         ELSE "\n"]

\* a configuration with small ceilings; every paragraph of Doc(n) is one chunk
ScaledConfig(m, s) ==
  [chunkSize      |-> ScaledChunkSize,
   overlap        |-> 0,
   minChars       |-> ScaledChunkSize,
   maxBatch       |-> m,
   chromaMaxBatch |-> s]

TxtName == << "d", ".", "t", "x", "t" >>

File(type, name, t) ==
  [hasFile |-> TRUE, hasCollectionName |-> TRUE, fileType |-> type,
   fileName |-> name, fileSize |-> Len(t), rawText |-> t]

TxtFile(t) == File("text/plain", TxtName, t)

\* the uploads the model runs: documents of 1..MaxChunks chunks under every
\* scaled-down pair of ceilings, texts without chunks, the scenario under the
\* program's ceilings, and the requests the handler rejects
Inputs ==
  {[request |-> TxtFile(Doc(n)), config |-> ScaledConfig(m, s)] :
      n \in 1..MaxChunks, m \in 1..MaxEmbedCeiling, s \in 1..MaxStoreCeiling}
  \cup {[request |-> TxtFile(t), config |-> ProgramConfig] :
          t \in {<< "h", "i" >>, << >>, << " ", "\n" >>}}
  \cup {[request |-> TxtFile(<< "h" >>), config |-> ScaledConfig(1, 1)]}
  \cup {[request |-> TxtFile(Doc(ScenarioChunks)),
         config  |-> ScaledConfig(MAX_BATCH_SIZE, CHROMA_MAX_BATCH)]}
  \cup {[request |-> r, config |-> ScaledConfig(1, 1)] :
          r \in {File("application/pdf", << "d", ".", "p", "d", "f" >>, Doc(1)),
                 File("", TxtName, Doc(1)),
                 File("image/png", << "d", ".", "p", "n", "g" >>, Doc(1)),
                 [TxtFile(Doc(1)) EXCEPT !.hasFile = FALSE],
                 [TxtFile(Doc(1)) EXCEPT !.hasCollectionName = FALSE]}}

(***************************************************************************)
(* Embedding endpoint: POST /api/generate-embedding                        *)
(***************************************************************************)

\* the vector the embedding model computes for a text
Vec(t) == << "vec", t >>

\* one vector per text, in the order of the texts
MapVec(texts) == [i \in 1..Len(texts) |-> Vec(texts[i])]

\* what embedMany can do for a non-empty list of values: one vector per
\* value, a list that lost its last vector, a list with one vector too many,
\* or an exception
UpstreamOutcomes == {"vectors", "short", "long", "throws"}

EmbedMany(values, upstream) ==
  CASE upstream = "vectors" -> MapVec(values)
    [] upstream = "short"   -> SubSeq(MapVec(values), 1, Len(values) - 1)
    [] upstream = "long"    -> Append(MapVec(values), Vec(<< >>))
    [] OTHER                -> << >>

\* the response of POST to a body { texts }
EmbeddingPOST(texts, upstream) ==
  IF Len(texts) = 0
  THEN [ok |-> FALSE, status |-> 400,
        error |-> "Texts array cannot be empty", embeddings |-> << >>]
  ELSE IF upstream = "throws"
       THEN [ok |-> FALSE, status |-> 500,
             error |-> "Cannot connect to Ollama server. Please ensure Ollama is running.",
             embeddings |-> << >>]
       ELSE [ok |-> TRUE, status |-> 200, error |-> "",
             embeddings |-> EmbedMany(texts, upstream)]

(***************************************************************************)
(* Streaming upload: PUT                                                   *)
(***************************************************************************)

VARIABLES
  request,      \* the form data: file and collection name
  config,       \* the constants the handler runs with
  pc,           \* the await the handler is suspended at, or "done"
  aborted,      \* request.signal.aborted
  streamOpen,   \* the response stream is readable (neither closed nor cancelled)
  sent,         \* every record handed to send(), in order
  stream,       \* the records send() enqueued on the response stream
  text,         \* extracted text
  chunks,       \* result of chunkText
  timestamp,    \* Date.now() taken after chunking
  embeddings,   \* accumulated vectors
  batchIndex,   \* loop variable of the embedding loop, then of the save loop
  embedCalls,   \* requests issued to the embedding endpoint, with their reply
  storeCalls,   \* collection.add calls issued
  collection,   \* records the vector store holds
  chat,         \* state of the Chat component and of its handleSubmit calls
  tool          \* state of the getAdditionalContext tool and of its execute calls

vars == << request, config, pc, aborted, streamOpen, sent, stream, text,
           chunks, timestamp, embeddings, batchIndex, embedCalls, storeCalls,
           collection, chat, tool >>

NoError == [name |-> "", message |-> << >>]

Thrown(name, message) == [name |-> name, message |-> message]

AbortError == Thrown("AbortError", << "This operation was aborted" >>)

\* controller.close() on a stream that is no longer readable
CloseError == Thrown("TypeError", << "Invalid state: Controller is already closed" >>)

\* a catch block without the cancellation branch
CatchEventAlwaysFailure(err) ==
  [error |-> << err.name, ": " >> \o err.message, progress |-> 0]

\* a catch block that reports cancellation as a status of its own
CatchEventCancelledStatus(err) ==
  IF err.name = "AbortError" \/ aborted
  THEN [status |-> "cancelled", progress |-> 0, message |-> << "Upload cancelled" >>]
  ELSE [error |-> << err.name, ": " >> \o err.message, progress |-> 0]

\* the record the catch block sends for a caught error
CatchEvent(err) ==
  IF err.name = "AbortError" \/ aborted
  THEN [error |-> << "Upload cancelled" >>, progress |-> 0]
  ELSE [error |-> << err.name, ": " >> \o err.message, progress |-> 0]

ErrorEvent(message) == [error |-> message, progress |-> 0]

StatusEvent(status, progress, message) ==
  [status |-> status, progress |-> progress, message |-> message]

\* progress computed from the sub-batches that remain
EmbedProgressRemaining(b, n) == 20 + (70 * (n - b)) \div n

\* 20 + Math.floor((batchIndex / numBatches) * 70) in double arithmetic
EmbedProgress(b, n) ==
  20 + (IF << b, n >> \in {<< 47, 70 >>, << 94, 140 >>}
        THEN (70 * b) \div n - 1
        ELSE (70 * b) \div n)

\* 90 + Math.floor((batchIndex / numSaveBatches) * 9)
SaveProgress(b, n) == 90 + (9 * b) \div n

\* a send() whose records reach the client whatever the state of the stream
DeliverUnguardedSend(es, caught, closing, nextPc) ==
  LET err     == IF caught = NoError /\ closing /\ ~streamOpen
                 THEN CloseError ELSE caught
      handled == err # NoError
      all     == IF handled THEN Append(es, CatchEvent(err)) ELSE es
  IN  /\ sent' = sent \o all
      /\ stream' = stream \o all
      /\ streamOpen' = IF closing \/ handled THEN FALSE ELSE streamOpen
      /\ pc' = IF closing \/ handled THEN "done" ELSE nextPc

\* a handler without its catch block: an error ends the run of the handler
\* with nothing more sent and the stream left as it is
DeliverUncaught(es, caught, closing, nextPc) ==
  LET err     == IF caught = NoError /\ closing /\ ~streamOpen
                 THEN CloseError ELSE caught
      handled == err # NoError
  IN  /\ sent' = sent \o es
      /\ stream' = IF streamOpen THEN stream \o es ELSE stream
      /\ streamOpen' = IF closing THEN FALSE ELSE streamOpen
      /\ pc' = IF closing \/ handled THEN "done" ELSE nextPc

\* what one run of the handler between two awaits does to the stream:
\* es are the records it hands to send(), caught the error its try body
\* throws (NoError if none), closing whether the try body reaches
\* controller.close(), nextPc the await it suspends at otherwise
Deliver(es, caught, closing, nextPc) ==
  LET err     == IF caught = NoError /\ closing /\ ~streamOpen
                 THEN CloseError ELSE caught
      handled == err # NoError
      all     == IF handled THEN Append(es, CatchEvent(err)) ELSE es
  IN  /\ sent' = sent \o all
      /\ stream' = IF streamOpen THEN stream \o all ELSE stream
      /\ streamOpen' = IF closing \/ handled THEN FALSE ELSE streamOpen
      /\ pc' = IF closing \/ handled THEN "done" ELSE nextPc

\* the handler's view of its constants and of the uploaded file
N == Len(chunks)

numBatches == Ceil(N, config.maxBatch)

\* the save loop sized by the embedding ceiling
numSaveBatchesByEmbedCeiling == Ceil(N, config.maxBatch)

\* the save loop sized by the whole sub-batches only
numSaveBatchesRoundedDown == N \div config.chromaMaxBatch

numSaveBatches == Ceil(N, config.chromaMaxBatch)

\* the storage-ready record of chunk index i (0-based); a vector list that is
\* too short leaves the embedding undefined (the empty tuple)
Record(cs, vs, i) ==
  [id        |-> generateChunkId(request.fileName, i, timestamp),
   embedding |-> IF i < Len(vs) THEN vs[i + 1] ELSE << >>,
   document  |-> cs[i + 1],
   metadata  |-> extractMetadata(request.fileName, request.fileType,
                                 request.fileSize, i, Len(cs), timestamp)]

\* ids.slice(lo, hi), embeddings.slice(lo, hi), ... of one collection.add
Records(cs, vs, lo, hi) == [k \in 1..(hi - lo) |-> Record(cs, vs, lo + k - 1)]

\* a sub-batch that runs one chunk into the next one
EmbedBatchTextsOneTooMany(cs, b) ==
  Slice(cs, b * config.maxBatch,
        Min(b * config.maxBatch + config.maxBatch + 1, Len(cs)))

\* chunks.slice(startIdx, endIdx) of embedding sub-batch b (lines 155-157)
EmbedBatchTexts(cs, b) ==
  Slice(cs, b * config.maxBatch,
        Min(b * config.maxBatch + config.maxBatch, Len(cs)))

\* a save sub-batch that starts one record late
SaveBatchRecordsOneLate(cs, vs, b) ==
  Records(cs, vs, Min(b * config.chromaMaxBatch + 1, Len(cs)),
          Min(b * config.chromaMaxBatch + config.chromaMaxBatch, Len(cs)))

\* the records of save sub-batch b (lines 315-339)
SaveBatchRecords(cs, vs, b) ==
  Records(cs, vs, b * config.chromaMaxBatch,
          Min(b * config.chromaMaxBatch + config.chromaMaxBatch, Len(cs)))

EmbedBatchEvent(b, nb, size) ==
  [status |-> "embedding", progress |-> EmbedProgress(b, nb),
   message |-> << "Embedding batch ", ToString(b + 1), "/", ToString(nb),
                  " (", ToString(size), " chunks)..." >>,
   currentBatch |-> b + 1, totalBatches |-> nb]

\* a save progress record that still announces the embedding phase
SaveBatchEventAsEmbedding(b, nb) ==
  StatusEvent("embedding", SaveProgress(b, nb),
              << "Saving batch ", ToString(b + 1), "/", ToString(nb),
                 " to database..." >>)

SaveBatchEvent(b, nb) ==
  StatusEvent("saving", SaveProgress(b, nb),
              << "Saving batch ", ToString(b + 1), "/", ToString(nb),
                 " to database..." >>)

\* lines 54-66: validation of the form data, then the first await
Start ==
  /\ pc = "start"
  /\ IF ~request.hasFile
     THEN Deliver(<< ErrorEvent(<< "No file provided" >>) >>, NoError, TRUE, "done")
     ELSE IF ~request.hasCollectionName
          THEN Deliver(<< ErrorEvent(<< "Collection name is required" >>) >>,
                       NoError, TRUE, "done")
          ELSE Deliver(<< StatusEvent("started", 0, << "Starting upload..." >>) >>,
                       NoError, FALSE, "getCollection")
  /\ UNCHANGED << request, config, aborted, text, chunks, timestamp,
                  embeddings, batchIndex, embedCalls, storeCalls, collection >>
  /\ UNCHANGED << chat, tool >>

\* lines 69-113: chromaClient.getCollection settles, then the file type is
\* dispatched
GetCollectionReturn ==
  /\ pc = "getCollection"
  /\ \E found \in BOOLEAN :
       LET es == << StatusEvent("collection_found", 5, << "Collection found" >>),
                    StatusEvent("extracting", 10, << "Extracting text..." >>) >>
       IN  IF ~found
           THEN Deliver(<< ErrorEvent(<< "Collection not found" >>) >>,
                        NoError, TRUE, "done")
           ELSE IF \/ request.fileType = "application/pdf"
                   \/ request.fileType = "text/plain"
                   \/ EndsWithTxt(request.fileName)
                THEN Deliver(es, NoError, FALSE, "extract")
                ELSE Deliver(Append(es, ErrorEvent(<< "Unsupported file type" >>)),
                             NoError, TRUE, "done")
  /\ UNCHANGED << request, config, aborted, text, chunks, timestamp,
                  embeddings, batchIndex, embedCalls, storeCalls, collection >>
  /\ UNCHANGED << chat, tool >>

\* a fetch that was not handed the signal of the request
SignalNotPropagated == FALSE

\* signal: request.signal (lines 182 and 224): fetch and the reading of its
\* response reject with an AbortError once the signal is aborted
SignalAborted == aborted

\* the first fetch of the embedding phase (lines 147-184 and 213-226): with
\* the signal already aborted fetch rejects without issuing a request
FirstEmbedTexts(cs) ==
  IF Len(cs) > config.maxBatch THEN EmbedBatchTexts(cs, 0) ELSE cs

\* lines 100-137: the text extraction settles; chunking; the embedding phase
\* begins
ExtractReturn ==
  /\ pc = "extract"
  /\ \/ /\ request.fileType = "application/pdf"
        /\ Deliver(<< >>, Thrown("Error", << "Invalid PDF structure" >>),
                   FALSE, "done")
        /\ UNCHANGED << text, chunks, timestamp, embeddings, batchIndex,
                        embedCalls >>
     \/ /\ Trim(request.rawText) = << >>
        /\ Deliver(<< ErrorEvent(<< "No text content found" >>) >>,
                   NoError, TRUE, "done")
        /\ text' = request.rawText
        /\ UNCHANGED << chunks, timestamp, embeddings, batchIndex, embedCalls >>
     \/ /\ Trim(request.rawText) # << >>
        /\ \E now \in Timestamps,
              cs \in {chunkText(request.rawText, config.chunkSize,
                                config.overlap, config.minChars)} :
             LET nb == Ceil(Len(cs), config.maxBatch)
                 es == << StatusEvent("chunking", 15, << "Creating chunks..." >>),
                          [status |-> "embedding", progress |-> 20,
                           message |-> << "Embedding ", ToString(Len(cs)),
                                          " chunks..." >>,
                           totalChunks |-> Len(cs)] >>
                       \o (IF Len(cs) > config.maxBatch
                           THEN << EmbedBatchEvent(0, nb, Len(FirstEmbedTexts(cs))) >>
                           ELSE << >>)
             IN  /\ text' = request.rawText
                 /\ chunks' = cs
                 /\ timestamp' = now
                 /\ embeddings' = << >>
                 /\ batchIndex' = 0
                 /\ IF SignalAborted
                    THEN /\ Deliver(es, AbortError, FALSE, "done")
                         /\ embedCalls' = embedCalls
                    ELSE /\ Deliver(es, NoError, FALSE, "embedWait")
                         /\ embedCalls' =
                              Append(embedCalls, [texts   |-> FirstEmbedTexts(cs),
                                                  model   |-> BatchModel,
                                                  reply   |-> "pending",
                                                  vectors |-> << >>])
  /\ UNCHANGED << request, config, aborted, storeCalls, collection >>
  /\ UNCHANGED << chat, tool >>

\* a count check that only notices missing vectors
EmbeddingCountMismatchShortOnly(vs) == Len(vs) < N

\* line 269: !embeddings || embeddings.length !== totalChunks
EmbeddingCountMismatch(vs) == Len(vs) # N

\* the save phase begins (lines 268-359): count validation, the two progress
\* records, then the first collection.add
BeginSave(es, vs) ==
  IF EmbeddingCountMismatch(vs)
  THEN /\ Deliver(es, Thrown("Error", << "Embedding count mismatch: expected ",
                                         ToString(N), ", got ",
                                         ToString(Len(vs)) >>),
                  FALSE, "done")
       /\ UNCHANGED << batchIndex, storeCalls >>
  ELSE LET es1 == es \o
                  << StatusEvent("embedding", 90,
                                 << "Successfully embedded ", ToString(N),
                                    " chunks" >>),
                     StatusEvent("saving", 90, << "Saving to database..." >>) >>
       IN  /\ batchIndex' = 0
           /\ IF N > config.chromaMaxBatch
              THEN /\ Deliver(Append(es1, SaveBatchEvent(0, numSaveBatches)),
                              NoError, FALSE, "saveWait")
                   /\ storeCalls' =
                        Append(storeCalls, SaveBatchRecords(chunks, vs, 0))
              ELSE /\ Deliver(es1, NoError, FALSE, "saveWait")
                   /\ storeCalls' =
                        Append(storeCalls, Records(chunks, vs, 0, N))

\* the pending embedding fetch settles (lines 175-207 and 215-265)
EmbedReturn ==
  /\ pc = "embedWait"
  /\ LET last   == Len(embedCalls)
         call   == embedCalls[last]
         mark(r, vs) == [embedCalls EXCEPT ![last].reply = r,
                                           ![last].vectors = vs]
     IN  IF SignalAborted
         THEN /\ Deliver(<< >>, AbortError, FALSE, "done")
              /\ embedCalls' = mark("aborted", << >>)
              /\ UNCHANGED << embeddings, batchIndex, storeCalls >>
         ELSE \E upstream \in UpstreamOutcomes :
                LET resp == EmbeddingPOST(call.texts, upstream)
                    acc  == IF N > config.maxBatch
                            THEN embeddings \o resp.embeddings
                            ELSE resp.embeddings
                    b    == batchIndex + 1
                IN  IF ~resp.ok
                    THEN /\ Deliver(<< >>, Thrown("Error", << resp.error >>),
                                    FALSE, "done")
                         /\ embedCalls' = mark("error", << >>)
                         /\ UNCHANGED << embeddings, batchIndex, storeCalls >>
                    ELSE /\ embeddings' = acc
                         /\ IF N > config.maxBatch /\ b < numBatches
                            THEN /\ Deliver(<< EmbedBatchEvent(b, numBatches,
                                                 Len(EmbedBatchTexts(chunks, b))) >>,
                                            NoError, FALSE, "embedWait")
                                 /\ embedCalls' =
                                      Append(mark("ok", resp.embeddings),
                                             [texts   |-> EmbedBatchTexts(chunks, b),
                                              model   |-> BatchModel,
                                              reply   |-> "pending",
                                              vectors |-> << >>])
                                 /\ batchIndex' = b
                                 /\ UNCHANGED storeCalls
                            ELSE /\ embedCalls' = mark("ok", resp.embeddings)
                                 /\ BeginSave(<< >>, acc)
  /\ UNCHANGED << request, config, aborted, text, chunks, timestamp, collection >>
  /\ UNCHANGED << chat, tool >>

\* the pending collection.add settles (lines 314-370); a call either stores
\* all its records or throws and stores none
SaveReturn ==
  /\ pc = "saveWait"
  /\ \E ok \in BOOLEAN :
       LET b == batchIndex + 1
       IN  IF ~ok
           THEN /\ Deliver(<< >>, Thrown("ChromaConnectionError",
                                         << "Failed to connect to chromadb" >>),
                           FALSE, "done")
                /\ UNCHANGED << batchIndex, storeCalls, collection >>
           ELSE /\ collection' = collection \o storeCalls[Len(storeCalls)]
                /\ IF N > config.chromaMaxBatch /\ b < numSaveBatches
                   THEN /\ Deliver(<< SaveBatchEvent(b, numSaveBatches) >>,
                                   NoError, FALSE, "saveWait")
                        /\ storeCalls' =
                             Append(storeCalls,
                                    SaveBatchRecords(chunks, embeddings, b))
                        /\ batchIndex' = b
                   ELSE /\ Deliver(<< [status |-> "complete", progress |-> 100,
                                       message |-> << "Successfully added ",
                                                      ToString(N), " chunks" >>,
                                       chunksAdded |-> N,
                                       fileName |-> request.fileName,
                                       fileSize |-> request.fileSize] >>,
                                   NoError, TRUE, "done")
                        /\ UNCHANGED << batchIndex, storeCalls >>
  /\ UNCHANGED << request, config, aborted, text, chunks, timestamp,
                  embeddings, embedCalls >>
  /\ UNCHANGED << chat, tool >>

\* the client aborts the upload: request.signal becomes aborted and the
\* response stream may already be cancelled with it
Abort ==
  /\ pc # "done"
  /\ ~aborted
  /\ aborted' = TRUE
  /\ \E cancelled \in BOOLEAN : streamOpen' = (streamOpen /\ ~cancelled)
  /\ UNCHANGED << request, config, pc, sent, stream, text, chunks, timestamp,
                  embeddings, batchIndex, embedCalls, storeCalls, collection >>
  /\ UNCHANGED << chat, tool >>

(***************************************************************************)
(* Chat component: handleSubmit (components/Chat.tsx)                      *)
(***************************************************************************)

\* largest number of handleSubmit calls of a session
MaxSubmits == 2

\* largest number of execute calls of the tool
MaxToolCalls == 2

\* largest totalChunks of a retrieved record
MaxTotalChunks == 3

\* what the user types
ChatTexts == {<< "h", "i" >>, << " " >>}

\* documents the store returns for a query
DocA == << "d", "o", "c", "A" >>

DocB == << "d", "o", "c", "B" >>

ChatResultDocuments == {<< >>, << DocA >>, << DocA, DocB >>}

\* the component before the user typed; selectedCollection "" is null
ChatIdle ==
  [inputValue          |-> << >>,
   status              |-> "ready",
   selectedCollection  |-> "",
   isQueryingKnowledge |-> FALSE,
   runs                |-> << >>,
   fetches             |-> << >>,
   sendCalls           |-> << >>]

\* `[Context ${idx + 1}]: ${doc}` joined with blank lines
RECURSIVE ContextSection(_, _)
ContextSection(docs, idx) ==
  IF idx >= Len(docs) THEN << >>
  ELSE (IF idx > 0 THEN << "\n", "\n" >> ELSE << >>)
       \o << "[Context " >> \o Decimal(idx + 1) \o << "]: " >> \o docs[idx + 1]
       \o ContextSection(docs, idx + 1)

\* a message text that always carries the context header
MessageTextAlwaysWithContext(inputValue, contextDocuments) ==
  << "Based on the following context, please answer the user's question:\n\n" >>
    \o ContextSection(contextDocuments, 0)
    \o << "\n\nUser question: " >> \o inputValue

\* lines 159-172: the text handed to sendMessage
MessageText(inputValue, contextDocuments) ==
  IF Len(contextDocuments) > 0
  THEN << "Based on the following context, please answer the user's question:\n\n" >>
         \o ContextSection(contextDocuments, 0)
         \o << "\n\nUser question: " >> \o inputValue
  ELSE inputValue

\* lines 150-189: Step 4, reached from the end of the try block, from the
\* catch block, or directly when no collection is selected
SendStep(r, runs1, fetches1, contextDocuments) ==
  chat' = [chat EXCEPT
             !.runs = [runs1 EXCEPT ![r].pc = "returned",
                                    ![r].contextDocuments = contextDocuments],
             !.fetches = fetches1,
             !.isQueryingKnowledge =
                IF runs1[r].rag THEN FALSE ELSE chat.isQueryingKnowledge,
             !.sendCalls =
                Append(chat.sendCalls,
                       [run  |-> r,
                        text |-> MessageText(runs1[r].inputValue,
                                             contextDocuments)]),
             !.status = "submitted",
             !.inputValue = << >>]

\* the user selects a collection or none and types a message
ChatType ==
  /\ chat.status = "ready"
  /\ Len(chat.runs) < MaxSubmits
  /\ \E typed \in ChatTexts, selected \in {"", "docs"} :
       /\ typed # chat.inputValue
       /\ chat' = [chat EXCEPT !.inputValue = typed,
                               !.selectedCollection = selected]
  /\ UNCHANGED << request, config, pc, aborted, streamOpen, sent, stream, text,
                  chunks, timestamp, embeddings, batchIndex, embedCalls,
                  storeCalls, collection, tool >>

\* lines 69-91: handleSubmit up to its first await, or to its end when no
\* collection is selected
HandleSubmit ==
  /\ Trim(chat.inputValue) # << >>
  /\ chat.status = "ready"
  /\ Len(chat.runs) < MaxSubmits
  /\ LET r    == Len(chat.runs) + 1
         rag  == chat.selectedCollection # ""
         run  == [pc               |-> "generate-query",
                  rag              |-> rag,
                  inputValue       |-> chat.inputValue,
                  searchQuery      |-> << >>,
                  failedAt         |-> "",
                  contextDocuments |-> << >>]
         runs1 == Append(chat.runs, run)
     IN  IF rag
         THEN chat' = [chat EXCEPT
                 !.runs = runs1,
                 !.isQueryingKnowledge = TRUE,
                 !.fetches = Append(chat.fetches,
                                    [run  |-> r, url |-> "/api/generate-query",
                                     body |-> chat.inputValue, model |-> ""])]
         ELSE SendStep(r, runs1, chat.fetches, << >>)
  /\ UNCHANGED << request, config, pc, aborted, streamOpen, sent, stream, text,
                  chunks, timestamp, embeddings, batchIndex, embedCalls,
                  storeCalls, collection, tool >>

\* lines 84-116: the query-rewrite fetch settles
QueryReturn ==
  /\ \E r \in DOMAIN chat.runs :
       /\ chat.runs[r].pc = "generate-query"
       /\ chat.runs[r].rag
       /\ \E outcome \in {"ok", "notOk", "throws"},
             searchQuery \in {<< "q" >>, << >>} :
            IF outcome = "ok"
            THEN chat' = [chat EXCEPT
                    !.runs[r].pc = "generate-embedding",
                    !.runs[r].searchQuery = searchQuery,
                    !.fetches = Append(chat.fetches,
                                  [run  |-> r, url |-> "/api/generate-embedding",
                                   body |-> searchQuery, model |-> SingleModel])]
            ELSE SendStep(r, [chat.runs EXCEPT ![r].failedAt = "generate-query"],
                          chat.fetches, << >>)
  /\ UNCHANGED << request, config, pc, aborted, streamOpen, sent, stream, text,
                  chunks, timestamp, embeddings, batchIndex, embedCalls,
                  storeCalls, collection, tool >>

\* lines 103-133: the embedding fetch settles; the endpoint answers 400 to an
\* empty text and 500 when embed throws
ChatEmbeddingReturn ==
  /\ \E r \in DOMAIN chat.runs :
       /\ chat.runs[r].pc = "generate-embedding"
       /\ \E upstream \in {"vector", "throws"}, fetched \in BOOLEAN :
            LET body == chat.runs[r].searchQuery
                ok   == fetched /\ body # << >> /\ upstream = "vector"
            IN  IF ok
                THEN chat' = [chat EXCEPT
                        !.runs[r].pc = "chroma",
                        !.fetches = Append(chat.fetches,
                                      [run  |-> r, url |-> "/api/chroma",
                                       body |-> Vec(body), model |-> ""])]
                ELSE SendStep(r, [chat.runs EXCEPT
                                    ![r].failedAt = "generate-embedding"],
                              chat.fetches, << >>)
  /\ UNCHANGED << request, config, pc, aborted, streamOpen, sent, stream, text,
                  chunks, timestamp, embeddings, batchIndex, embedCalls,
                  storeCalls, collection, tool >>

\* lines 120-156: the store query settles
ChromaReturn ==
  /\ \E r \in DOMAIN chat.runs :
       /\ chat.runs[r].pc = "chroma"
       /\ \E outcome \in {"ok", "notOk", "throws"},
             documents \in ChatResultDocuments :
            IF outcome = "ok"
            THEN SendStep(r, chat.runs, chat.fetches, documents)
            ELSE SendStep(r, [chat.runs EXCEPT ![r].failedAt = "chroma"],
                          chat.fetches, << >>)
  /\ UNCHANGED << request, config, pc, aborted, streamOpen, sent, stream, text,
                  chunks, timestamp, embeddings, batchIndex, embedCalls,
                  storeCalls, collection, tool >>

\* useChat: the assistant's answer has been received
ChatAnswered ==
  /\ chat.status = "submitted"
  /\ chat' = [chat EXCEPT !.status = "ready"]
  /\ UNCHANGED << request, config, pc, aborted, streamOpen, sent, stream, text,
                  chunks, timestamp, embeddings, batchIndex, embedCalls,
                  storeCalls, collection, tool >>

(***************************************************************************)
(* Retrieval tool: createGetAdditionalContextTool, execute                 *)
(***************************************************************************)

\* metadata written by ingestion for chunk i of n (extractMetadata)
IngestedMetadata(i, n) ==
  [filename |-> TxtName, chunkIndex |-> i, totalChunks |-> n]

\* metadata of a record that was not written by ingestion
ForeignMetadata == [filename |-> TxtName]

\* the records the store can return for a query: none, one record, or two
\* adjacent chunks of one document
Retrieved(i, n) == [document |-> DocA, metadata |-> IngestedMetadata(i, n)]

ToolResults ==
  {<< >>, << [document |-> DocB, metadata |-> ForeignMetadata] >>}
  \cup UNION {{<< Retrieved(i, n) >> : i \in 0..(n - 1)} : n \in 1..MaxTotalChunks}
  \cup {<< Retrieved(n - 1, n), Retrieved(n - 2, n) >> : n \in 2..MaxTotalChunks}

\* the tool before its first call
ToolIdle ==
  [pc         |-> "idle",
   query      |-> << >>,
   executions |-> 0,
   embedCalls |-> << >>,
   result     |-> [success |-> FALSE, error |-> << >>, results |-> << >>]]

\* lines 72-103: the entry of formattedResults for one returned document
FormatResult(doc, metadata) ==
  LET known    == "chunkIndex" \in DOMAIN metadata /\ "totalChunks" \in DOMAIN metadata
      chunkNum == metadata.chunkIndex
      total    == metadata.totalChunks
      header   == << "[ChunkID " >> \o Decimal(chunkNum) \o << " of " >>
                    \o Decimal(total) \o << "]", "\n\n" >>
      footer   == IF chunkNum < total
                  THEN << "\n\n", "[Continues on chunkID " >> \o Decimal(chunkNum + 1)
                         \o << " of " >> \o Decimal(total) \o << "]" >>
                  ELSE << "\n\n", "[End of document]" >>
  IN  [content  |-> IF known THEN header \o doc \o footer ELSE doc,
       metadata |-> metadata]

\* lines 116-127: the value returned from the catch block
ToolFailure(message) ==
  [success |-> FALSE, error |-> message, results |-> << >>]

\* lines 35-46: the model calls the tool; execute runs up to its first await
ToolExecute ==
  /\ tool.pc = "idle"
  /\ tool.executions < MaxToolCalls
  /\ \E query \in {<< "q" >>, << "q", "2" >>} :
       tool' = [tool EXCEPT
                  !.pc = "embed",
                  !.query = query,
                  !.executions = tool.executions + 1,
                  !.embedCalls = Append(tool.embedCalls,
                                        [value |-> query, model |-> ToolModel])]
  /\ UNCHANGED << request, config, pc, aborted, streamOpen, sent, stream, text,
                  chunks, timestamp, embeddings, batchIndex, embedCalls,
                  storeCalls, collection, chat >>

\* lines 42-51: embed settles
ToolEmbedReturn ==
  /\ tool.pc = "embed"
  /\ \E ok \in BOOLEAN :
       tool' = IF ok
               THEN [tool EXCEPT !.pc = "getCollection"]
               ELSE [tool EXCEPT !.pc = "idle",
                                 !.result = ToolFailure(<< "embed failed" >>)]
  /\ UNCHANGED << request, config, pc, aborted, streamOpen, sent, stream, text,
                  chunks, timestamp, embeddings, batchIndex, embedCalls,
                  storeCalls, collection, chat >>

\* lines 49-57: getCollection settles
ToolGetCollectionReturn ==
  /\ tool.pc = "getCollection"
  /\ \E ok \in BOOLEAN :
       tool' = IF ok
               THEN [tool EXCEPT !.pc = "query"]
               ELSE [tool EXCEPT !.pc = "idle",
                                 !.result = ToolFailure(<< "collection not found" >>)]
  /\ UNCHANGED << request, config, pc, aborted, streamOpen, sent, stream, text,
                  chunks, timestamp, embeddings, batchIndex, embedCalls,
                  storeCalls, collection, chat >>

\* lines 54-127: collection.query settles and the results are formatted
ToolQueryReturn ==
  /\ tool.pc = "query"
  /\ \E ok \in BOOLEAN, found \in ToolResults :
       tool' =
         IF ~ok
         THEN [tool EXCEPT !.pc = "idle",
                           !.result = ToolFailure(<< "query failed" >>)]
         ELSE IF found = << >>
              THEN [tool EXCEPT !.pc = "idle",
                                !.result = [success |-> FALSE, error |-> << >>,
                                            results |-> << >>]]
              ELSE [tool EXCEPT
                      !.pc = "idle",
                      !.result =
                        [success |-> TRUE, error |-> << >>,
                         results |-> [k \in DOMAIN found |->
                                        FormatResult(found[k].document,
                                                     found[k].metadata)]]]
  /\ UNCHANGED << request, config, pc, aborted, streamOpen, sent, stream, text,
                  chunks, timestamp, embeddings, batchIndex, embedCalls,
                  storeCalls, collection, chat >>

Init ==
  /\ \E input \in Inputs : request = input.request /\ config = input.config
  /\ pc = "start"
  /\ aborted = FALSE
  /\ streamOpen = TRUE
  /\ sent = << >>
  /\ stream = << >>
  /\ text = << >>
  /\ chunks = << >>
  /\ timestamp = 0
  /\ embeddings = << >>
  /\ batchIndex = 0
  /\ embedCalls = << >>
  /\ storeCalls = << >>
  /\ collection = << >>
  /\ chat = ChatIdle
  /\ tool = ToolIdle

Next ==
  \/ Start
  \/ GetCollectionReturn
  \/ ExtractReturn
  \/ EmbedReturn
  \/ SaveReturn
  \/ Abort

Spec == Init /\ [][Next]_vars

(***************************************************************************)
(* The chat component on its own, the retrieval tool on its own, and the   *)
(* application: an upload, a chat turn and a tool call side by side        *)
(***************************************************************************)

\* the upload that runs beside the chat: three chunks, embedded in two
\* sub-batches
AppUploads ==
  {[request |-> TxtFile(Doc(3)), config |-> ScaledConfig(2, 3)]}

\* the upload handler has been called and has not run yet
UploadIdle ==
  /\ \E input \in AppUploads : request = input.request /\ config = input.config
  /\ pc = "start"
  /\ aborted = FALSE
  /\ streamOpen = TRUE
  /\ sent = << >>
  /\ stream = << >>
  /\ text = << >>
  /\ chunks = << >>
  /\ timestamp = 0
  /\ embeddings = << >>
  /\ batchIndex = 0
  /\ embedCalls = << >>
  /\ storeCalls = << >>
  /\ collection = << >>

ChatInit == UploadIdle /\ chat = ChatIdle /\ tool = ToolIdle

ChatNext ==
  \/ ChatType
  \/ HandleSubmit
  \/ QueryReturn
  \/ ChatEmbeddingReturn
  \/ ChromaReturn
  \/ ChatAnswered

ChatSpec == ChatInit /\ [][ChatNext]_vars

ToolInit == UploadIdle /\ chat = ChatIdle /\ tool = ToolIdle

ToolNext ==
  \/ ToolExecute
  \/ ToolEmbedReturn
  \/ ToolGetCollectionReturn
  \/ ToolQueryReturn

ToolSpec == ToolInit /\ [][ToolNext]_vars

\* the chat component after MaxSubmits - 1 turns without a collection
ChatAfterTurns ==
  [ChatIdle EXCEPT
     !.runs = [r \in 1..(MaxSubmits - 1) |->
                 [pc |-> "returned", rag |-> FALSE, inputValue |-> << "h", "i" >>,
                  searchQuery |-> << >>, failedAt |-> "",
                  contextDocuments |-> << >>]],
     !.sendCalls = [r \in 1..(MaxSubmits - 1) |->
                      [run |-> r, text |-> << "h", "i" >>]]]

\* the tool after MaxToolCalls - 1 calls whose embedding failed
ToolAfterCalls ==
  [ToolIdle EXCEPT
     !.executions = MaxToolCalls - 1,
     !.query = IF MaxToolCalls > 1 THEN << "q" >> ELSE << >>,
     !.embedCalls = [k \in 1..(MaxToolCalls - 1) |->
                       [value |-> << "q" >>, model |-> ToolModel]],
     !.result = IF MaxToolCalls > 1 THEN ToolFailure(<< "embed failed" >>)
                ELSE ToolIdle.result]

AppInit == UploadIdle /\ chat = ChatAfterTurns /\ tool = ToolAfterCalls

AppNext ==
  \/ Start
  \/ GetCollectionReturn
  \/ ExtractReturn
  \/ EmbedReturn
  \/ SaveReturn
  \/ Abort
  \/ ChatType
  \/ HandleSubmit
  \/ QueryReturn
  \/ ChatEmbeddingReturn
  \/ ChromaReturn
  \/ ChatAnswered
  \/ ToolExecute
  \/ ToolEmbedReturn
  \/ ToolGetCollectionReturn
  \/ ToolQueryReturn

AppSpec == AppInit /\ [][AppNext]_vars

(***************************************************************************)
(* Vocabulary of the properties                                            *)
(***************************************************************************)

Last(seq) == seq[Len(seq)]

IsError(e) == "error" \in DOMAIN e

IsStatus(e) == "status" \in DOMAIN e

IsComplete(e) == IsStatus(e) /\ e.status = "complete"

\* the record the handler sends when it ends through the cancellation branch
CancelEvent == [error |-> << "Upload cancelled" >>, progress |-> 0]

\* the handler has returned
Done == pc = "done"

\* chunkText has run in this job
Chunked == timestamp # 0

\* the handler has returned and the last record it sent is ...
EndedComplete == Done /\ sent # << >> /\ IsComplete(Last(sent))

EndedCancelled == Done /\ sent # << >> /\ Last(sent) = CancelEvent

EndedFailed ==
  Done /\ sent # << >> /\ IsError(Last(sent)) /\ Last(sent) # CancelEvent

(***************************************************************************)
(* C1: when chunkText returns no chunk for a text that is not blank, the   *)
(* job completes with chunksAdded = 0, issues no embedding call and no     *)
(* store write, and does not fail.                                         *)
(***************************************************************************)
C1_ZeroChunksComplete ==
  (Done /\ Chunked /\ N = 0 /\ ~aborted)
    => /\ EndedComplete
       /\ Last(sent).chunksAdded = 0
       /\ embedCalls = << >>
       /\ storeCalls = << >>

(***************************************************************************)
(* C2: once cancellation is signalled after store sub-batch k >= 1 has     *)
(* completed, no record of a later sub-batch is written.                   *)
(***************************************************************************)
C2_CancelStopsStoreWrites ==
  [][(aborted /\ pc = "saveWait" /\ collection # << >>)
       => collection' = collection]_vars

(***************************************************************************)
(* C3: a step of the embedding phase taken with the abort signal raised    *)
(* (the fetch of a sub-batch is about to be issued or is pending) ends the *)
(* job through the cancellation branch without issuing an embedding call,  *)
(* and no record is ever written.                                          *)
(***************************************************************************)
InEmbeddingStep ==
  \/ pc = "embedWait"
  \/ pc = "extract" /\ timestamp' # 0

C3_CancelDuringEmbedding ==
  [][(aborted /\ InEmbeddingStep)
       => /\ pc' = "done"
          /\ Last(sent') = CancelEvent
          /\ Len(embedCalls') = Len(embedCalls)
          /\ storeCalls' = << >>
          /\ collection' = << >>]_vars

\* an abort observed while the second of several sub-batches was pending
C3_Witness ==
  /\ EndedCancelled
  /\ Len(embedCalls) = 2
  /\ Len(embedCalls) < numBatches
  /\ Last(embedCalls).reply = "aborted"
  /\ collection = << >>

(***************************************************************************)
(* C4 as stated: the terminal event of a cancelled job does not use the    *)
(* error-carrying record of failures.                                      *)
(***************************************************************************)
C4_CancelDistinctShape ==
  EndedCancelled => DOMAIN Last(sent) # DOMAIN ErrorEvent(<< "No file provided" >>)

(***************************************************************************)
(* C4 amended: cancellation is reported with the error-carrying record of  *)
(* failures, { error: "Upload cancelled", progress: 0 }; it differs from a *)
(* failure only by its error text, which is sent only when the abort       *)
(* signal is raised, and a job whose embedding fetch was aborted ends with *)
(* that record.                                                            *)
(***************************************************************************)
C4_CancelUsesErrorRecord ==
  /\ \A i \in DOMAIN sent :
       IsError(sent[i])
         => /\ DOMAIN sent[i] = {"error", "progress"}
            /\ sent[i].progress = 0
            /\ (sent[i].error = << "Upload cancelled" >> => aborted)
  /\ (Done /\ embedCalls # << >> /\ Last(embedCalls).reply = "aborted")
       => Last(sent) = CancelEvent

C4_Witness ==
  /\ EndedCancelled
  /\ embedCalls # << >> /\ Last(embedCalls).reply = "aborted"
  /\ streamOpen = FALSE
  /\ stream # << >> /\ Last(stream) = CancelEvent

(***************************************************************************)
(* C5 as stated: the progress values of the emitted events never decrease, *)
(* and a run that succeeds ends with progress 100.                         *)
(***************************************************************************)
C5_ProgressNonDecreasing ==
  /\ \A i, j \in DOMAIN stream :
       i < j => stream[i].progress <= stream[j].progress
  /\ (\E i \in DOMAIN stream : IsComplete(stream[i]))
       => Last(stream).progress = 100

(***************************************************************************)
(* C5 amended: the progress values of the emitted status events never      *)
(* decrease, an error event (failure or cancellation) carries progress 0   *)
(* and is the last event, and a run that emits complete ends with that     *)
(* event, whose progress is 100.                                           *)
(***************************************************************************)
C5_StatusProgressNonDecreasing ==
  /\ \A i, j \in DOMAIN stream :
       (i < j /\ IsStatus(stream[i]) /\ IsStatus(stream[j]))
         => stream[i].progress <= stream[j].progress
  /\ \A i \in DOMAIN stream :
       IsError(stream[i]) => stream[i].progress = 0 /\ i = Len(stream)
  /\ \A i \in DOMAIN stream :
       IsComplete(stream[i]) => stream[i].progress = 100 /\ i = Len(stream)

\* a successful run with several embedding and several save sub-batches
C5_Witness ==
  /\ EndedComplete
  /\ Last(stream) = Last(sent)
  /\ numBatches >= 2
  /\ numSaveBatches >= 2

(***************************************************************************)
(* C6 .. C10                                                               *)
(***************************************************************************)

\* ceil(N / M) and ceil(N / S) for the ceilings of the running configuration
EmbedCallsNeeded == Ceil(N, config.maxBatch)

StoreCallsNeeded == Ceil(N, config.chromaMaxBatch)

\* every embedding call issued so far got an ok response
AllEmbedOk == \A b \in DOMAIN embedCalls : embedCalls[b].reply = "ok"

\* ... and that response held one vector per text
AllEmbedFull ==
  \A b \in DOMAIN embedCalls :
    /\ embedCalls[b].reply = "ok"
    /\ Len(embedCalls[b].vectors) = Len(embedCalls[b].texts)

(***************************************************************************)
(* C6: for N >= 1 chunks the embedding calls are issued one at a time in   *)
(* sub-batch order, call b carrying chunks [b*M, min((b+1)*M, N)); when    *)
(* all have answered there are exactly ceil(N/M) of them, and if each      *)
(* answer held one vector per text the accumulated list has N entries,     *)
(* entry i being the vector returned for chunk i.                          *)
(***************************************************************************)
C6_EmbedBatching ==
  (Chunked /\ N >= 1) =>
    /\ Len(embedCalls) <= EmbedCallsNeeded
    /\ \A b \in DOMAIN embedCalls :
         /\ embedCalls[b].texts =
              Slice(chunks, (b - 1) * config.maxBatch,
                    Min(b * config.maxBatch, N))
         /\ (b < Len(embedCalls) => embedCalls[b].reply = "ok")
    /\ (embedCalls # << >> /\ Last(embedCalls).reply = "ok")
         => Len(embedCalls) = EmbedCallsNeeded
    /\ (embedCalls # << >> /\ AllEmbedFull)
         => /\ Len(embeddings) = N
            /\ \A i \in 0..(N - 1) :
                 /\ embeddings[i + 1] =
                      embedCalls[(i \div config.maxBatch) + 1]
                        .vectors[(i % config.maxBatch) + 1]
                 /\ embeddings[i + 1] = Vec(chunks[i + 1])

\* all sub-batches answered in full, the last one being a partial sub-batch
C6_Witness ==
  /\ Chunked /\ N >= 3
  /\ pc = "saveWait"
  /\ AllEmbedFull
  /\ Len(embedCalls) >= 2
  /\ N % config.maxBatch # 0

(***************************************************************************)
(* C7: a store write is issued only after every embedding call answered    *)
(* ok and the vectors received number exactly N; a failed embedding call,  *)
(* or a total that differs from N, ends the job in a failure with the      *)
(* collection unchanged.                                                   *)
(***************************************************************************)
C7_StoreOnlyAfterValidEmbedding ==
  /\ storeCalls # << >>
       => /\ AllEmbedOk
          /\ Len(embedCalls) = EmbedCallsNeeded
          /\ Len(embeddings) = N
  /\ ( \/ \E b \in DOMAIN embedCalls : embedCalls[b].reply = "error"
       \/ /\ embedCalls # << >> /\ AllEmbedOk
          /\ Len(embeddings) # N )
       => /\ EndedFailed
          /\ storeCalls = << >>
          /\ collection = << >>

\* several sub-batches, all answered ok, one vector short in total
C7_Witness ==
  /\ EndedFailed
  /\ Len(embedCalls) >= 2 /\ AllEmbedOk
  /\ Len(embeddings) < N
  /\ collection = << >>

(***************************************************************************)
(* C8: the persisted records are those of the chunk indices 0..p-1, p a    *)
(* whole number of store sub-batches or N; when store sub-batch j fails,   *)
(* exactly the records of the sub-batches before j stay persisted, no      *)
(* later sub-batch is issued and the job ends with an error event.         *)
(***************************************************************************)
C8_PersistedPrefix ==
  LET p == Len(collection)
      S == config.chromaMaxBatch
      j == Len(storeCalls)
  IN  /\ p <= N
      /\ (p % S = 0 \/ p = N)
      /\ \A k \in 1..p :
           /\ collection[k].metadata.chunkIndex = k - 1
           /\ collection[k].document = chunks[k]
      /\ (Done /\ storeCalls # << >> /\ p < N)
           => /\ p = (j - 1) * S
              /\ \A b \in 1..(j - 1) : \A k \in 1..S :
                   collection[(b - 1) * S + k] = storeCalls[b][k]
              /\ IsError(Last(sent))
              /\ ~IsComplete(Last(sent))

\* the third or a later store sub-batch failed
C8_Witness ==
  /\ EndedFailed
  /\ Len(storeCalls) >= 3
  /\ Len(collection) = (Len(storeCalls) - 1) * config.chromaMaxBatch
  /\ Len(collection) < N

(***************************************************************************)
(* C9: for N >= 1 records the add calls are issued one after the other in  *)
(* index order, call b carrying records [b*S, min((b+1)*S, N)), exactly    *)
(* ceil(N/S) of them when all are stored, whatever the embedding ceiling;  *)
(* ScenarioChunks chunks under the program's ceilings take 3 embedding     *)
(* calls and 1 add call.                                                   *)
(***************************************************************************)
C9_StoreBatching ==
  LET S == config.chromaMaxBatch
  IN  /\ (Chunked /\ N >= 1) =>
           /\ Len(storeCalls) <= StoreCallsNeeded
           /\ \A b \in DOMAIN storeCalls :
                /\ Len(storeCalls[b]) = Min(b * S, N) - (b - 1) * S
                /\ \A k \in DOMAIN storeCalls[b] :
                     storeCalls[b][k] =
                       Record(chunks, embeddings, (b - 1) * S + k - 1)
           /\ Len(collection) >= (Len(storeCalls) - 1) * S
           /\ Len(collection) = N => Len(storeCalls) = StoreCallsNeeded
      /\ ( /\ config.maxBatch = MAX_BATCH_SIZE
           /\ config.chromaMaxBatch = CHROMA_MAX_BATCH
           /\ N = ScenarioChunks /\ Len(collection) = N )
           => Len(embedCalls) = 3 /\ Len(storeCalls) = 1

\* a completed job whose save loop ended with a partial sub-batch, under
\* ceilings that differ
C9_Witness ==
  /\ EndedComplete
  /\ Len(collection) = N
  /\ Len(storeCalls) >= 2
  /\ N % config.chromaMaxBatch # 0
  /\ config.maxBatch # config.chromaMaxBatch

(***************************************************************************)
(* C10: the status values of the emitted events follow the order started,  *)
(* collection_found, extracting, chunking, embedding, saving, complete: no *)
(* earlier status after a later one, complete only after all the others,   *)
(* and an error event (failure or cancellation), after whichever status,   *)
(* is the last event.                                                      *)
(***************************************************************************)
StatusOrder ==
  << "started", "collection_found", "extracting", "chunking", "embedding",
     "saving", "complete" >>

Rank(status) == CHOOSE r \in DOMAIN StatusOrder : StatusOrder[r] = status

Announced(status) ==
  \E i \in DOMAIN sent : IsStatus(sent[i]) /\ sent[i].status = status

\* getCollection rejected: the handler returned after started without ever
\* announcing the collection
CollectionUnresolved ==
  Done /\ Announced("started") /\ ~Announced("collection_found")

\* the uploaded file is neither a PDF nor a text file
UnsupportedType ==
  /\ request.hasFile /\ request.hasCollectionName
  /\ request.fileType \notin {"application/pdf", "text/plain"}
  /\ ~EndsWithTxt(request.fileName)

\* the uploaded file is a text file holding nothing but whitespace
BlankText ==
  /\ request.hasFile /\ request.hasCollectionName
  /\ request.fileType = "text/plain"
  /\ \A i \in DOMAIN request.rawText : request.rawText[i] \in Whitespace

\* a failure record was sent, no status record follows it, and nothing was
\* requested from the embedding endpoint or the store
FailedWithoutSideEffect ==
  /\ \E i \in DOMAIN sent :
       /\ IsError(sent[i]) /\ sent[i] # CancelEvent
       /\ \A j \in DOMAIN sent : j > i => ~IsStatus(sent[j])
  /\ embedCalls = << >>
  /\ storeCalls = << >>
  /\ collection = << >>

(***************************************************************************)
(* C11: when the collection cannot be resolved, the file type is           *)
(* unsupported, or the extracted text is empty or whitespace only, the     *)
(* handler returns at that point having sent a failure record, and no      *)
(* embedding call and no store write is ever issued.                       *)
(***************************************************************************)
C11_EarlyFailureNoSideEffect ==
  /\ CollectionUnresolved => FailedWithoutSideEffect
  /\ (UnsupportedType /\ Announced("extracting"))
       => Done /\ FailedWithoutSideEffect
  /\ (BlankText /\ pc \notin {"start", "getCollection", "extract"})
       => Done /\ FailedWithoutSideEffect

\* a whitespace-only text file was read and rejected
C11_Witness ==
  /\ BlankText /\ request.rawText # << >>
  /\ Done /\ Announced("extracting")
  /\ Last(sent) = ErrorEvent(<< "No text content found" >>)

(***************************************************************************)
(* C12: a complete record (progress 100) is sent only when the records of  *)
(* all N chunks of the job are persisted, N being the number of chunks     *)
(* chunkText returned for the uploaded text, and its chunksAdded is N.     *)
(***************************************************************************)
C12_CompleteMeansAllPersisted ==
  \A i \in DOMAIN sent :
    IsComplete(sent[i])
      => /\ sent[i].progress = 100
         /\ sent[i].chunksAdded = N
         /\ N = Len(chunkText(request.rawText, config.chunkSize,
                              config.overlap, config.minChars))
         /\ Len(collection) = N
         /\ \A k \in 1..N :
              /\ collection[k].document = chunks[k]
              /\ collection[k].metadata.chunkIndex = k - 1

\* a job completed after a save loop whose last sub-batch was partial
C12_Witness ==
  /\ EndedComplete
  /\ Last(sent).chunksAdded = N
  /\ N >= 3
  /\ N > config.chromaMaxBatch
  /\ N % config.chromaMaxBatch # 0

(***************************************************************************)
(* chunkText called on its own: the inputs are drawn from bounded sets and *)
(* the function is applied to them, any number of times, as time passes    *)
(***************************************************************************)

\* largest number of pieces a generated text is made of
MaxPieces == 5

\* the pieces: a word, a short word, a space, a comma, a sentence end and a
\* paragraph break
Pieces ==
  << << "a", "a", "a" >>, << "b" >>, << " " >>, << "," >>, << "." >>,
     << "\n", "\n" >> >>

\* the text made of the pieces with the indices ps
RECURSIVE Flatten(_)
Flatten(ps) ==
  IF ps = << >> THEN << >> ELSE Pieces[Head(ps)] \o Flatten(Tail(ps))

\* a run of n letters
Letter(n) == [i \in 1..n |-> "a"]

\* triples << chunkSize, overlap, minChars >> small enough for the pieces
SmallConfigs ==
  {[chunkSize |-> c[1], overlap |-> c[2], minChars |-> c[3],
    maxBatch |-> MAX_BATCH_SIZE, chromaMaxBatch |-> CHROMA_MAX_BATCH] :
     c \in {<< 4, 1, 1 >>, << 5, 2, 2 >>, << 12, 2, 3 >>}}

\* the calls the model makes: every text of at most MaxPieces pieces under
\* every small configuration, and texts around the 50-character filter under
\* the program's configuration
ChunkerInputs ==
  {[text |-> Flatten(ps), config |-> c] :
     ps \in UNION {[1..n -> DOMAIN Pieces] : n \in 0..MaxPieces},
     c \in SmallConfigs}
  \cup {[text |-> t, config |-> ProgramConfig] :
          t \in {Letter(MIN_CHUNK_CHARS - 1), Letter(MIN_CHUNK_CHARS),
                 << " " >> \o Letter(MIN_CHUNK_CHARS - 1) \o << "\n" >>,
                 Letter(MIN_CHUNK_CHARS - 10) \o << "\n", " ", "\n" >>
                   \o Letter(9),
                 Letter(MIN_CHUNK_CHARS - 10) \o << "\n", " ", "\n" >>
                   \o Letter(8)}}

ChunkerInit ==
  /\ \E input \in ChunkerInputs :
       /\ text = input.text
       /\ config = input.config
       /\ request = TxtFile(input.text)
  /\ pc = "chunkText"
  /\ aborted = FALSE
  /\ streamOpen = TRUE
  /\ sent = << >>
  /\ stream = << >>
  /\ chunks = << >>
  /\ timestamp = 0
  /\ embeddings = << >>
  /\ batchIndex = 0
  /\ embedCalls = << >>
  /\ storeCalls = << >>
  /\ collection = << >>
  /\ chat = ChatIdle
  /\ tool = ToolIdle

\* a call whose chunks array outlives the call and keeps what the previous
\* call pushed
chunkTextCallKeepingChunks ==
  chunks \o chunkText(text, config.chunkSize, config.overlap, config.minChars)

\* chunkText(text, chunkSize, overlap) on the arguments of this run
chunkTextCall ==
  chunkText(text, config.chunkSize, config.overlap, config.minChars)

\* a call of chunkText on the arguments of this run: the first one, or a
\* later one with the same arguments at a later time
ChunkerCall ==
  /\ pc \in {"chunkText", "returned"}
  /\ chunks' = chunkTextCall
  /\ pc' = "returned"
  /\ \E now \in Timestamps : now > timestamp /\ timestamp' = now
  /\ UNCHANGED << request, config, aborted, streamOpen, sent, stream, text,
                  embeddings, batchIndex, embedCalls, storeCalls, collection >>
  /\ UNCHANGED << chat, tool >>

ChunkerNext ==
  \/ ChunkerCall

ChunkerSpec == ChunkerInit /\ [][ChunkerNext]_vars

\* chunkText has returned
Returned == pc = "returned"

\* what chunkText would return for this run without its final filter
Unfiltered == chunkText(text, config.chunkSize, config.overlap, 0)

(***************************************************************************)
(* C13: every chunk chunkText returns is trimmed, is not empty and has at  *)
(* least minChars characters, minChars being the 50 of the final filter    *)
(* (MIN_CHUNK_CHARS under the program's configuration).                    *)
(***************************************************************************)
C13_NoSmallChunk ==
  Returned =>
    \A k \in DOMAIN chunks :
      /\ chunks[k] # << >>
      /\ chunks[k][1] \notin Whitespace
      /\ chunks[k][Len(chunks[k])] \notin Whitespace
      /\ Len(chunks[k]) >= config.minChars
      /\ (config = ProgramConfig => Len(chunks[k]) >= MIN_CHUNK_CHARS)

\* a call in which the filter dropped a chunk and kept another
C13_Witness ==
  /\ Returned
  /\ chunks # << >>
  /\ Len(Unfiltered) > Len(chunks)

(***************************************************************************)
(* C14 as stated: with overlap < chunkSize no chunk chunkText returns is   *)
(* longer than chunkSize characters.                                       *)
(***************************************************************************)
C14_ChunkWithinChunkSize ==
  (Returned /\ config.overlap < config.chunkSize) =>
    \A k \in DOMAIN chunks : Len(chunks[k]) <= config.chunkSize

\* the paragraph-normalized text: the non-empty paragraphs, each with its
\* whitespace collapsed and trimmed, joined by single spaces
RECURSIVE JoinParagraphs(_)
JoinParagraphs(ps) ==
  IF ps = << >> THEN << >>
  ELSE IF Head(ps) = << >> THEN JoinParagraphs(Tail(ps))
  ELSE LET rest == JoinParagraphs(Tail(ps))
       IN  IF rest = << >> THEN Head(ps) ELSE Head(ps) \o << " " >> \o rest

NormalizedText == JoinParagraphs(Paragraphs(text))

\* the first position at or after p (0-based) of t that holds no whitespace
RECURSIVE SkipSpace(_, _)
SkipSpace(t, p) ==
  IF p < Len(t) /\ t[p + 1] \in Whitespace THEN SkipSpace(t, p + 1) ELSE p

\* the offsets at which chunk c occurs in t
Occurrences(t, c) ==
  {o \in 0..(Len(t) - Len(c)) : SubSeq(t, o + 1, o + Len(c)) = c}

\* the chunks cs[k..] can be laid over t in order, each starting no later
\* than the first character not yet covered (p characters are covered), so
\* that all of t is covered
RECURSIVE CoversFrom(_, _, _, _)
CoversFrom(t, cs, k, p) ==
  IF k > Len(cs) THEN SkipSpace(t, p) >= Len(t)
  ELSE LET fit == {o \in Occurrences(t, cs[k]) : o <= SkipSpace(t, p)}
           far == CHOOSE o \in fit : \A o2 \in fit : o2 <= o
       IN  /\ fit # {}
           /\ CoversFrom(t, cs, k + 1, Max(p, far + Len(cs[k])))

(***************************************************************************)
(* C15 as stated, for the calls in which the final filter dropped nothing: *)
(* the returned chunks, laid in order over the paragraph-normalized text   *)
(* with their overlaps, cover all of it: no gap between one chunk and the  *)
(* next, no text lost at the end.                                          *)
(***************************************************************************)
C15_ChunksCoverText ==
  (Returned /\ chunks = Unfiltered /\ config.overlap < config.chunkSize)
    => CoversFrom(NormalizedText, chunks, 1, 0)

\* the source regions [from, to) of the sub-chunks splitLongText pushes for a
\* paragraph, in order
RECURSIVE SplitRegionsFrom(_, _, _, _, _, _)
SplitRegionsFrom(paragraph, chunkSize, overlap, subChunks, position, fuel) ==
  IF position >= Len(paragraph) \/ fuel = 0 THEN << >>
  ELSE LET it   == SplitIteration(paragraph, chunkSize, overlap, subChunks,
                                  position)
           here == IF Len(it[1]) > Len(subChunks)
                   THEN << [from |-> position,
                            to   |-> ChunkEnd(paragraph, chunkSize, position)] >>
                   ELSE << >>
       IN  here \o SplitRegionsFrom(paragraph, chunkSize, overlap, it[1],
                                    it[2], fuel - 1)

SplitRegions(paragraph) ==
  SplitRegionsFrom(paragraph, config.chunkSize, config.overlap, << >>, 0,
                   SplitFuel(paragraph))

\* the paragraphs of this call that chunkText hands to splitLongText
LongParagraphs ==
  {Paragraphs(text)[k] : k \in {j \in DOMAIN Paragraphs(text) :
                                  Len(Paragraphs(text)[j]) > config.chunkSize}}

\* characters that end a word
WordEnd == {" ", ",", ".", "!", "?"}

\* position i (0-based) of the paragraph has a word character on both sides
InsideWord(paragraph, i) ==
  /\ i > 0 /\ i < Len(paragraph)
  /\ paragraph[i] \notin WordEnd
  /\ paragraph[i + 1] \notin WordEnd

(***************************************************************************)
(* C16 as stated: when a paragraph longer than chunkSize is split, no      *)
(* sub-chunk that is followed by another ends inside a word, and every     *)
(* sub-chunk after the first starts at the beginning of a word.            *)
(***************************************************************************)
C16_NoCutInsideWord ==
  (Returned /\ config.overlap < config.chunkSize) =>
    \A paragraph \in LongParagraphs :
      LET regions == SplitRegions(paragraph)
      IN  \A i \in 1..(Len(regions) - 1) :
            /\ ~InsideWord(paragraph, regions[i].to)
            /\ ~InsideWord(paragraph,
                           SkipSpace(paragraph, regions[i + 1].from))

(***************************************************************************)
(* C17 as stated: for consecutive sub-chunks of one split paragraph the    *)
(* second starts inside the source region of the first, at most overlap    *)
(* characters before its end and never after its end.                      *)
(***************************************************************************)
C17_SubChunksOverlap ==
  (Returned /\ config.overlap < config.chunkSize) =>
    \A paragraph \in LongParagraphs :
      LET regions == SplitRegions(paragraph)
      IN  \A i \in 1..(Len(regions) - 1) :
            /\ regions[i + 1].from >= regions[i].to - config.overlap
            /\ regions[i + 1].from >= regions[i].from
            /\ regions[i + 1].from <= regions[i].to

\* the locals of chunkText before the for loop takes paragraph j
LocalsBefore(j) ==
  ParagraphLoop([chunks |-> << >>, currentChunk |-> << >>,
                 previousOverlap |-> << >>],
                SubSeq(Paragraphs(text), 1, j - 1),
                config.chunkSize, config.overlap)

\* chunk a begins with the characters of b
BeginsWith(a, b) == Len(b) <= Len(a) /\ SubSeq(a, 1, Len(b)) = b

\* paragraph j makes chunkText close the current chunk (line 32)
ClosesChunk(j) ==
  LET st == LocalsBefore(j)
      p  == Paragraphs(text)[j]
  IN  /\ p # << >>
      /\ st.currentChunk # << >>
      /\ Len(st.currentChunk) + Len(p) + 1 > config.chunkSize

\* paragraph j is the first paragraph taken after a split long paragraph
FollowsSplit(j) ==
  LET st == LocalsBefore(j)
  IN  /\ Paragraphs(text)[j] # << >>
      /\ st.currentChunk = << >>
      /\ st.chunks # << >>

\* the chunk that was closed last when paragraph j is taken, and what the
\* chunk that follows it begins as
ClosedAt(j) ==
  LET st == LocalsBefore(j)
  IN  IF st.currentChunk # << >> THEN Trim(st.currentChunk)
      ELSE st.chunks[Len(st.chunks)]

FollowerAt(j) ==
  LET st    == LocalsBefore(j)
      after == LocalsBefore(j + 1)
      base  == Len(st.chunks) + (IF st.currentChunk # << >> THEN 1 ELSE 0)
  IN  IF Len(Paragraphs(text)[j]) > config.chunkSize
      THEN after.chunks[base + 1]
      ELSE after.currentChunk

(***************************************************************************)
(* C18 as stated, for the calls in which the final filter dropped nothing: *)
(* at every seam where chunkText closes a chunk, and at the seam after the *)
(* last sub-chunk of a split paragraph, the chunk that follows begins with *)
(* the trimmed last overlap characters of the chunk closed before it.      *)
(***************************************************************************)
C18_TailOverlapAtEverySeam ==
  (Returned /\ chunks = Unfiltered /\ config.overlap < config.chunkSize) =>
    \A j \in DOMAIN Paragraphs(text) :
      (ClosesChunk(j) \/ FollowsSplit(j))
        => BeginsWith(FollowerAt(j), TailOverlap(ClosedAt(j), config.overlap))

(***************************************************************************)
(* C19: chunkText returns no chunk for the empty text; for a text shorter  *)
(* than chunkSize it returns exactly one chunk, the paragraph-normalized   *)
(* text, when that has at least minChars (50) characters, and no chunk     *)
(* otherwise.                                                              *)
(***************************************************************************)
C19_SmallDocumentOneChunk ==
  Returned =>
    /\ text = << >> => chunks = << >>
    /\ Len(text) < config.chunkSize =>
         IF Len(NormalizedText) >= config.minChars
         THEN Len(chunks) = 1 /\ chunks[1] = NormalizedText
         ELSE chunks = << >>

\* a text of several paragraphs, shorter than chunkSize, returned as one
\* chunk
C19_Witness ==
  /\ Returned
  /\ Len(text) < config.chunkSize
  /\ Cardinality({j \in DOMAIN Paragraphs(text) :
                    Paragraphs(text)[j] # << >>}) >= 2
  /\ Len(chunks) = 1

RunTimestamps == 1..(10 * MaxClock + 1)

\* chunk indices of another run, whose text may differ
OtherRunIndices == 0..(3 * MaxChunks - 1)

\* ids.map(...) of line 295 for the run in progress
RunIds == {generateChunkId(request.fileName, i, timestamp) : i \in 0..(N - 1)}

\* the ids a run of the handler at clock reading t generates for the same
\* file name
OtherRunIds(t) ==
  {generateChunkId(request.fileName, i, t) : i \in OtherRunIndices}

\* the ids handed to collection.add so far, as << call, position, id >>
IssuedIds ==
  UNION {{<< b, k, storeCalls[b][k].id >> : k \in DOMAIN storeCalls[b]} :
           b \in DOMAIN storeCalls}

(***************************************************************************)
(* C21: within one run the record ids are pairwise distinct, one per chunk *)
(* index, built from the file name, the index and the run's timestamp; the *)
(* ids of a run of the same file name with another timestamp are disjoint  *)
(* from them.                                                              *)
(***************************************************************************)
C21_IdsDistinct ==
  Chunked =>
    /\ Cardinality(RunIds) = N
    /\ \A b \in DOMAIN storeCalls : \A k \in DOMAIN storeCalls[b] :
         storeCalls[b][k].id =
           request.fileName \o << "-", "c", "h", "u", "n", "k", "-" >>
             \o Decimal((b - 1) * config.chromaMaxBatch + k - 1)
             \o << "-" >> \o Decimal(timestamp)
    /\ \A x, y \in IssuedIds : x[3] = y[3] => x = y
    /\ \A t \in RunTimestamps \ {timestamp} : RunIds \cap OtherRunIds(t) = {}

\* a run that stored records with two-digit chunk indices
C21_Witness ==
  /\ EndedComplete
  /\ N > 11
  /\ Cardinality(IssuedIds) = N

\* the retrieval steps of handleSubmit in order, named by the route fetched
RetrievalSteps ==
  << "/api/generate-query", "/api/generate-embedding", "/api/chroma" >>

\* the routes handleSubmit call r has fetched, in order
FetchedBy(r) ==
  LET mine == SelectSeq(chat.fetches, LAMBDA f : f.run = r)
  IN  [k \in DOMAIN mine |-> mine[k].url]

\* the texts handleSubmit call r has handed to sendMessage
SentBy(r) ==
  LET mine == SelectSeq(chat.sendCalls, LAMBDA c : c.run = r)
  IN  [k \in DOMAIN mine |-> mine[k].text]

\* number of the step named by a route
StepOf(route) ==
  CHOOSE k \in DOMAIN RetrievalSteps : "/api/" \o route = RetrievalSteps[k]

(***************************************************************************)
(* C22: when the query-rewrite call, the embedding call or the store query *)
(* of a handleSubmit call fails, no later retrieval step is fetched, the   *)
(* context set stays empty, and sendMessage is called exactly once with    *)
(* the text the user submitted.                                            *)
(***************************************************************************)
C22_RetrievalFailureStillSends ==
  \A r \in DOMAIN chat.runs :
    chat.runs[r].failedAt # ""
      => /\ chat.runs[r].pc = "returned"
         /\ FetchedBy(r) = SubSeq(RetrievalSteps, 1, StepOf(chat.runs[r].failedAt))
         /\ chat.runs[r].contextDocuments = << >>
         /\ SentBy(r) = << chat.runs[r].inputValue >>

\* one submit failed at the query rewrite and another, running at the same
\* time, at the store query; both messages were sent
C22_Witness ==
  /\ Len(chat.runs) = 2
  /\ chat.runs[1].failedAt = "chroma"
  /\ chat.runs[2].failedAt = "generate-query"
  /\ chat.sendCalls[1].run = 2
  /\ Len(chat.sendCalls) = 2

\* sequence a ends with the elements of b
EndsWith(a, b) ==
  Len(b) <= Len(a) /\ SubSeq(a, Len(a) - Len(b) + 1, Len(a)) = b

\* `[ChunkID ${i} of ${n}]`
PositionHeader(i, n) ==
  << "[ChunkID " >> \o Decimal(i) \o << " of " >> \o Decimal(n) \o << "]" >>

\* `[Continues on chunkID ${k} of ${n}]`
ContinuesOn(k, n) ==
  << "[Continues on chunkID " >> \o Decimal(k) \o << " of " >> \o Decimal(n)
    \o << "]" >>

EndOfDocument == << "[End of document]" >>

\* the entries of the tool's last return value whose metadata ingestion wrote
AnnotatedResults ==
  {k \in DOMAIN tool.result.results :
     /\ "chunkIndex" \in DOMAIN tool.result.results[k].metadata
     /\ "totalChunks" \in DOMAIN tool.result.results[k].metadata
     /\ tool.result.results[k].metadata.chunkIndex \in
          0..(tool.result.results[k].metadata.totalChunks - 1)}

(***************************************************************************)
(* C23: a chunk returned by the tool with ingestion metadata (index i of N *)
(* chunks, 0 <= i < N) is annotated with its position i of N; a chunk that *)
(* is not the last one is marked as continuing on chunk i + 1, which       *)
(* exists, and the last chunk (i = N - 1) is marked as the end of the      *)
(* document.                                                               *)
(***************************************************************************)
C23_AnnotationNamesNeighbour ==
  \A k \in AnnotatedResults :
    LET item == tool.result.results[k]
        i    == item.metadata.chunkIndex
        n    == item.metadata.totalChunks
    IN  /\ BeginsWith(item.content, PositionHeader(i, n))
        /\ i < n - 1 => EndsWith(item.content, ContinuesOn(i + 1, n))
        /\ i = n - 1 => EndsWith(item.content, EndOfDocument)

\* the model identifiers of the embedding requests made so far: by the
\* upload handler through the endpoint, by handleSubmit through the endpoint,
\* and by the tool
EmbeddingModelsUsed ==
  {embedCalls[b].model : b \in DOMAIN embedCalls}
  \cup {chat.fetches[k].model :
          k \in {j \in DOMAIN chat.fetches :
                   chat.fetches[j].url = "/api/generate-embedding"}}
  \cup {tool.embedCalls[k].model : k \in DOMAIN tool.embedCalls}

(***************************************************************************)
(* C24: every embedding request, for the chunks of an upload, for the      *)
(* rewritten query of the chat and for the query of the retrieval tool,    *)
(* names the same embedding model.                                         *)
(***************************************************************************)
C24_OneEmbeddingModel ==
  EmbeddingModelsUsed \subseteq {DEFAULT_EMBEDDING_MODEL}

\* the upload has embedded two sub-batches, the chat its rewritten query
\* and the tool its query
C24_Witness ==
  /\ Len(embedCalls) >= 2
  /\ \E k \in DOMAIN chat.fetches :
       chat.fetches[k].url = "/api/generate-embedding"
  /\ Len(tool.embedCalls) >= MaxToolCalls
  /\ Cardinality(EmbeddingModelsUsed) = 1

\* the parameters DOCUMENTS.md states for the chunker (Text Chunking
\* Strategy, Parameters) and the batch ceilings of the pipeline
DocumentedParameters ==
  [chunkSize      |-> 800,
   overlap        |-> 200,
   minChars       |-> 50,
   maxBatch       |-> 50,
   chromaMaxBatch |-> 5000]

\* the handler runs with the constants of constants.ts
RunsProgramConfig == config = ProgramConfig

(***************************************************************************)
(* C25: an ingestion job of the program chunks with chunkSize 800 and      *)
(* overlap 200, drops the chunks shorter than 50 characters, and sends at  *)
(* most 50 chunks per embedding call and 5000 records per store write.     *)
(***************************************************************************)
C25_DocumentedDefaults ==
  (RunsProgramConfig /\ Chunked) => config = DocumentedParameters

(***************************************************************************)
(* The upload under the assumption that every remote call settles: an      *)
(* await of the handler (form data, getCollection, text extraction, an     *)
(* embedding fetch, a collection.add) is eventually resumed.  The client's *)
(* abort is not forced to happen.                                          *)
(***************************************************************************)
\* the steps of ExtractReturn seen through pc: ExtractReturn is enabled
\* exactly when pc = "extract" and every step of it leaves that await
ExtractSettles == pc = "extract" /\ pc' \in {"embedWait", "done"}

LiveSpec ==
  /\ Init
  /\ [][Next]_vars
  /\ WF_vars(Start)
  /\ WF_vars(GetCollectionReturn)
  /\ WF_pc(ExtractSettles)
  /\ WF_vars(EmbedReturn)
  /\ WF_vars(SaveReturn)

\* the last record handed to send() is complete, a failure or the
\* cancellation record
TerminalSent ==
  sent # << >> /\ (IsComplete(Last(sent)) \/ IsError(Last(sent)))

(***************************************************************************)
(* C26: if every remote call eventually returns or fails, every ingestion  *)
(* job eventually has sent a terminal record (complete, failure or         *)
(* cancellation), has closed its event stream and has returned.            *)
(***************************************************************************)
C26_EventuallyTerminal ==
  <>(Done /\ TerminalSent /\ ~streamOpen)

\* a job that failed in the save loop after a first sub-batch was stored
C26_Witness ==
  /\ EndedFailed
  /\ ~streamOpen
  /\ ~aborted
  /\ Len(storeCalls) >= 2
  /\ collection # << >>

(***************************************************************************)
(* chunkText called with any chunk size and any smaller overlap: the call  *)
(* returns, or the while loop of splitLongText never exits and the call    *)
(* stays in it                                                             *)
(***************************************************************************)

\* largest number of pieces of a text handed to the splitter
MaxSplitPieces == 4

\* largest chunk size handed to the splitter
MaxSplitSize == 5

\* every chunkSize >= 1 with every overlap, 0 <= overlap < chunkSize
SplitterConfigs ==
  {[chunkSize |-> c, overlap |-> o, minChars |-> 1,
    maxBatch |-> MAX_BATCH_SIZE, chromaMaxBatch |-> CHROMA_MAX_BATCH] :
     c \in 1..MaxSplitSize, o \in 0..(MaxSplitSize - 1)}
  \ {c \in [chunkSize : 1..MaxSplitSize, overlap : 0..(MaxSplitSize - 1),
            minChars : {1}, maxBatch : {MAX_BATCH_SIZE},
            chromaMaxBatch : {CHROMA_MAX_BATCH}] : c.overlap >= c.chunkSize}

SplitterInputs ==
  {[text |-> Flatten(ps), config |-> c] :
     ps \in UNION {[1..n -> DOMAIN Pieces] : n \in 0..MaxSplitPieces},
     c \in SplitterConfigs}

SplitterInit ==
  /\ \E input \in SplitterInputs :
       /\ text = input.text
       /\ config = input.config
       /\ request = TxtFile(input.text)
  /\ pc = "chunkText"
  /\ aborted = FALSE
  /\ streamOpen = TRUE
  /\ sent = << >>
  /\ stream = << >>
  /\ chunks = << >>
  /\ timestamp = 0
  /\ embeddings = << >>
  /\ batchIndex = 0
  /\ embedCalls = << >>
  /\ storeCalls = << >>
  /\ collection = << >>
  /\ chat = ChatIdle
  /\ tool = ToolIdle

\* the paragraphs chunkText hands to splitLongText
ParagraphsToSplit(doc, chunkSize) ==
  {p \in {Paragraphs(doc)[k] : k \in DOMAIN Paragraphs(doc)} :
     Len(p) > chunkSize}

\* chunkText(doc, chunkSize, overlap) returns: each of its calls of
\* splitLongText does
ChunkTextTerminates(doc, chunkSize, overlap) ==
  \A p \in ParagraphsToSplit(doc, chunkSize) :
    SplitTerminates(p, chunkSize, overlap)

\* a call of chunkText on the arguments of this run: it returns the chunks,
\* or it never leaves the while loop of splitLongText
SplitterCall ==
  /\ pc = "chunkText"
  /\ IF ChunkTextTerminates(text, config.chunkSize, config.overlap)
     THEN /\ chunks' = chunkTextCall
          /\ pc' = "returned"
     ELSE /\ chunks' = chunks
          /\ pc' = "splitLongText"
  /\ UNCHANGED << request, config, aborted, streamOpen, sent, stream, text,
                  timestamp, embeddings, batchIndex, embedCalls, storeCalls,
                  collection >>
  /\ UNCHANGED << chat, tool >>

SplitterNext ==
  \/ SplitterCall

SplitterSpec == SplitterInit /\ [][SplitterNext]_vars

\* the arguments of this run are in the range the splitter is written for
ValidSplitArguments ==
  config.chunkSize >= 1 /\ 0 <= config.overlap /\ config.overlap < config.chunkSize

\* chunkText has been called on the arguments of this run
SplitterCalled == pc # "chunkText"

\* the call is inside the while loop of splitLongText and will not leave it
LoopsForever == pc = "splitLongText"

(***************************************************************************)
(* C27: for every text, every chunkSize >= 1 and every overlap with        *)
(* 0 <= overlap < chunkSize, a call of chunkText returns: it is never      *)
(* caught in the while loop of splitLongText, whose scan position moves    *)
(* forward on every iteration.                                             *)
(***************************************************************************)
C27_ChunkTextTerminates ==
  (ValidSplitArguments /\ SplitterCalled) =>
    /\ ~LoopsForever
    /\ \A p \in ParagraphsToSplit(text, config.chunkSize) :
         SplitAdvances(p, config.chunkSize, config.overlap)

\* no record handed to send() is the complete record
NoCompleteSent == \A k \in DOMAIN sent : ~IsComplete(sent[k])

\* the signal is aborted and no collection.add has been issued
AbortedBeforeFirstWrite == aborted /\ storeCalls = << >>

(***************************************************************************)
(* C28: once the signal is aborted while no collection.add has been        *)
(* issued, the job issues no collection.add, stores no record and never    *)
(* sends the complete record.  The count validation and the first          *)
(* collection.add follow the last embedding response in one run of the     *)
(* handler, so the signal cannot become aborted between them.              *)
(***************************************************************************)
C28_AbortBeforeWriteStoresNothing ==
  [][AbortedBeforeFirstWrite =>
       /\ storeCalls' = << >>
       /\ collection' = << >>
       /\ NoCompleteSent'
       /\ aborted']_vars

\* a job cancelled while its second embedding sub-batch was in flight
C28_Witness ==
  /\ EndedCancelled
  /\ AbortedBeforeFirstWrite
  /\ collection = << >>
  /\ NoCompleteSent
  /\ Len(embedCalls) >= 2
  /\ embedCalls[1].reply = "ok"
  /\ embedCalls[Len(embedCalls)].reply = "aborted"

\* a record that ends a job: complete, a failure or the cancellation
IsTerminal(e) == IsComplete(e) \/ IsError(e)

\* positions of the terminal records among the records enqueued on the
\* response stream
StreamTerminals == {k \in DOMAIN stream : IsTerminal(stream[k])}

\* positions of the terminal records among the records handed to send()
SentTerminals == {k \in DOMAIN sent : IsTerminal(sent[k])}

(***************************************************************************)
(* C29: the response stream of a job carries at most one terminal record   *)
(* (complete, failure or cancellation), that record is the last one of the *)
(* stream, and once a terminal record has been handed to send() the job    *)
(* enqueues nothing more and issues no embedding request and no            *)
(* collection.add, also when controller.close() throws because the client  *)
(* has cancelled the stream.                                               *)
(***************************************************************************)
C29_OneTerminalRecord ==
  /\ [](/\ Cardinality(StreamTerminals) <= 1
        /\ \A k \in StreamTerminals : k = Len(stream))
  /\ [][SentTerminals # {} =>
          /\ stream' = stream
          /\ embedCalls' = embedCalls
          /\ storeCalls' = storeCalls
          /\ collection' = collection]_vars

\* a job whose last collection.add succeeded after the client had cancelled
\* the stream: complete was handed to send(), controller.close() threw, the
\* catch block handed the cancellation record to send(), and neither record
\* was enqueued
C29_Witness ==
  /\ Done
  /\ aborted
  /\ Cardinality(SentTerminals) = 2
  /\ IsComplete(sent[Len(sent) - 1])
  /\ Last(sent) = CancelEvent
  /\ StreamTerminals = {}
  /\ collection # << >>

\* the records the collection holds under the id of chunk index i of this job
StoredUnder(i) ==
  {collection[k] : k \in {j \in DOMAIN collection :
     collection[j].id = generateChunkId(request.fileName, i, timestamp)}}

(***************************************************************************)
(* C30: every record a job has stored is aligned: the record stored under  *)
(* the id of chunk index i holds the text of chunk i, the vector the       *)
(* embedding model computes for the text of chunk i, and metadata with     *)
(* chunkIndex = i and totalChunks = N, whatever the embedding and store    *)
(* sub-batches were.                                                       *)
(***************************************************************************)
C30_RecordsAligned ==
  \A i \in 0..(N - 1) :
    \A rec \in StoredUnder(i) :
      /\ rec.document = chunks[i + 1]
      /\ rec.embedding = Vec(chunks[i + 1])
      /\ rec.metadata.chunkIndex = i
      /\ rec.metadata.totalChunks = N

====
